---- MODULE Spec2Model ----
(***************************************************************************)
(* The HTTP handlers of mobius-forms-serverless as a state machine over    *)
(* the relational store they share.                                        *)
(*                                                                         *)
(* State: the tables the handlers write (db), the IDENTITY counters of     *)
(* those tables (nextId), the set of committed transactions, and one       *)
(* record per worker slot: the invocation it runs, with its request, its   *)
(* position in the code, its transaction, the statements it has issued     *)
(* (log) and its HTTP response.                                            *)
(*                                                                         *)
(* Every row carries tx, the number of the invocation that inserted it.    *)
(* A statement issued on pool.request() sees the rows of committed         *)
(* transactions; a statement issued on transaction.request() sees those    *)
(* and the rows of its own transaction (mssql's default isolation level,   *)
(* READ COMMITTED). rollback() deletes the rows of the transaction;        *)
(* commit() adds the transaction to the committed set.                     *)
(*                                                                         *)
(* A handler is a function from a frame (the invocation together with the  *)
(* store it sees) to a frame, composed of its statements in the order of   *)
(* the code. The statements a transaction issues between two points where  *)
(* it can see or be seen by another invocation form one step: a handler    *)
(* with a transaction takes one step up to its commit and one step for     *)
(* the commit; statements outside a transaction are one step each.         *)
(*                                                                         *)
(* The process holds one memoized promise of the connection pool           *)
(* (poolPromise). A handler that awaits it while the connection is being   *)
(* made waits for the connection to settle.                                *)
(***************************************************************************)
EXTENDS Integers, Sequences, FiniteSets, TLC

\* ------------------------------------------------------------------ bounds
\* Handler invocations in one run (each takes the next invocation number).
MaxInv == 2

\* Statements the store fails in one run.
MaxFaults == 1

\* The statement the store fails is among the first MaxFaultAt statements of
\* its invocation.
MaxFaultAt == 5

\* Worker slots: invocations that may be in flight at the same time.
Procs == {"p1", "p2"}

\* ------------------------------------------------------------------ values
\* SQL NULL in an integer column (a column the INSERT does not name).
NULL == -1

\* A JSON string field that is absent or empty: !field is true.
NoStr == ""

\* A JSON id field that is absent (or 0): !field is true.
NoId == 0

Falsy(x) == x = NoStr

FalsyId(x) == x = NoId

Max(S) == CHOOSE x \in S : \A y \in S : y <= x

\* An optional JSON array: absent (undefined), or an array of items.
Absent == [isArray |-> FALSE, items |-> <<>>]

Arr(s) == [isArray |-> TRUE, items |-> s]

\* ------------------------------------------------------- the read-only tables
\* users, forms and form_translations are written by no handler.
users ==
    { [id |-> 1, email |-> "a@b.com"],
      [id |-> 2, email |-> "c@d.com"] }

forms ==
    { [id |-> 1, user_id |-> 1, category |-> "flash"],
      [id |-> 2, user_id |-> 2, category |-> "flash"] }

form_translations ==
    { [id |-> 1, form_id |-> 1, language |-> "en"],
      [id |-> 2, form_id |-> 1, language |-> "es"],
      [id |-> 3, form_id |-> 2, language |-> "es"] }

\* ------------------------------------------------------------------- state
VARIABLES
    db,         \* table name -> the rows of the table, each with its tx
    nextId,     \* table name -> next IDENTITY value
    committed,  \* invocation numbers whose transaction committed
    faults,     \* statements the store has failed
    nextInv,    \* the next invocation number
    inv,        \* slot -> the invocation it runs
    poolPromise,\* the memoized promise of getPool: its state, the pool it is of
    connects    \* the calls of ConnectionPool.connect() so far

vars == <<db, nextId, committed, faults, nextInv, inv, poolPromise, connects>>

\* questions:                    [id, description, question_type, required, position, image_urls, tx]
\* question_translations:        [id, question_id, language, question_text, tx]
\* question_options:             [id, question_id, position, tx]
\* question_option_translations: [id, option_id, language, option_text, tx]
\* form_question_translations:   [id, form_translation_id, question_translation_id, position, tx]
\* responses:                    [id, form_id, tx]
\* answers:                      [id, response_id, question_id, answer_text, tx]
TableNames == {"questions", "question_translations", "question_options",
               "question_option_translations", "form_question_translations",
               "responses", "answers"}

\* ---------------------------------------------------------- invocations
\* The response body fields the handlers return.
NoBody == [id |-> 0, form_id |-> 0, questions |-> <<>>]

\* json: the request body parses as JSON. status: the HTTP status returned
\* (Escaped when the handler threw instead of returning). conn: the connect()
\* whose promise the handler has waited for or got its pool from, by its
\* number; 0 when the await found the promise rejected already.
\* rows: the recordset of the questions query.
Idle ==
    [h |-> "none", req |-> [x |-> 0], pc |-> "idle", tid |-> 0, failAt |-> 0,
     txn |-> "none", status |-> 0, body |-> NoBody, pool |-> FALSE, log |-> <<>>,
     i |-> 1, out |-> 0, id |-> 0, form_id |-> 0, qt |-> 0, ft |-> 0, pos |-> 0,
     json |-> TRUE, conn |-> 0, rows |-> <<>>]

\* let poolPromise = null (part_003 line 15).
NoPromise == [state |-> "null", id |-> 0]

\* The promise of pool id once connect() has resolved.
Fulfilled(id) == [state |-> "fulfilled", id |-> id]

\* A slot takes a new invocation when it runs none; the second slot is taken
\* after the first (the slots are interchangeable).
Free(p) ==
    /\ inv[p].pc \in {"idle", "done"}
    /\ nextInv <= MaxInv
    /\ p = "p2" => inv["p1"].pc # "idle"

FaultPoints == 0..MaxFaultAt

\* The frame of a fresh invocation of handler h on request req: the
\* invocation and the store as it finds it.
Call(h, req, failAt) ==
    [Idle EXCEPT !.h = h, !.req = req, !.pc = "run", !.tid = nextInv,
                 !.failAt = failAt]
    @@ [db |-> db, ids |-> nextId, committed |-> committed, faults |-> faults,
        poolPromise |-> poolPromise, connects |-> connects]

\* pool.request(): outside any transaction. What a statement writes outside
\* a transaction is committed at once: 0 is in the committed set from the start.
PoolRequest == 0

\* The frame of an invocation of handler h on request req that finds the
\* store empty and runs alone, in a process that has its pool.
Boot(h, req) ==
    [Idle EXCEPT !.h = h, !.req = req, !.pc = "run", !.tid = PoolRequest]
    @@ [db |-> [t \in TableNames |-> {}], ids |-> [t \in TableNames |-> 1],
        committed |-> {PoolRequest}, faults |-> 0,
        poolPromise |-> Fulfilled(1), connects |-> 1]

\* The frame of the invocation of slot p as it goes on.
Resume(p) ==
    inv[p] @@ [db |-> db, ids |-> nextId, committed |-> committed, faults |-> faults,
               poolPromise |-> poolPromise, connects |-> connects]

\* The invocation of a frame. A fault that can no longer strike is forgotten,
\* and so is the fault of an invocation that has met no statement yet: the
\* statement the store fails is drawn when the handler goes on.
InvOf(S) ==
    [f \in DOMAIN Idle |->
        IF f = "failAt" /\ (S.pc \in {"done", "getPool"} \/ S.failAt <= Len(S.log)
                             \/ S.faults >= MaxFaults)
        THEN 0 ELSE S[f]]

\* The handler goes on: it has not returned, it has not thrown, and it does
\* not wait for the pool.
Live(S) == S.pc \notin {"done", "getPool"}

Running(p, h, pc) == inv[p].h = h /\ inv[p].pc = pc

\* ------------------------------------------------------------- statements
\* The rows of a table a statement of transaction t sees in frame S:
\* committed rows and its own.
View(S, table, t) == {r \in S.db[table] : r.tx \in S.committed \cup {t}}


\* transaction.request(): inside the transaction of the invocation.
TxRequest(S) == S.tid

\* return { status, jsonBody } (or createErrorResponse(status, ...)).
Respond(S, status, body) ==
    IF ~Live(S) THEN S
    ELSE [S EXCEPT !.pc = "done", !.status = status, !.body = body]

\* One round trip to the store (kind: begin, select, insert, update, commit).
\* When the store fails it the statement throws, and the catch block of the
\* handler answers 500.
Exec(S, kind) ==
    IF ~Live(S) THEN S
    ELSE IF Len(S.log) + 1 = S.failAt /\ S.faults < MaxFaults
    THEN Respond([S EXCEPT !.log = Append(@, "error"), !.faults = @ + 1], 500, NoBody)
    ELSE [S EXCEPT !.log = Append(@, kind)]

\* The status of an invocation that returned no response: the handler threw.
Escaped == -1

\* An exception outside every try block: the handler returns no response.
Throw(S) ==
    IF ~Live(S) THEN S ELSE [S EXCEPT !.pc = "done", !.status = Escaped]

\* await req.json() outside the try block: it throws on a body that is no
\* JSON, and nothing catches it.
Json(S) == IF ~S.json THEN Throw(S) ELSE S

\* await req.json() inside the try block: the catch block answers 500.
JsonInTry(S) == IF ~S.json THEN Respond(S, 500, NoBody) ELSE S

\* The frame of a call whose body is no JSON.
NoJson(S) == [S EXCEPT !.json = FALSE]

\* getPool() (part_003 lines 17-31), first call: poolPromise is null, the
\* pool is made and connect() is called; the promise is memoized before
\* anything is awaited.
Connect(S) ==
    [S EXCEPT !.connects = @ + 1,
              !.poolPromise = [state |-> "pending", id |-> S.connects + 1]]

\* await of a promise that has not settled: the handler waits.
Await(S) == [S EXCEPT !.pc = "getPool", !.conn = S.poolPromise.id]

\* getPool() that memoizes nothing while the connection is being made: every
\* call before the first pool is there connects.
GetPoolUnlessConnected(S) ==
    IF ~Live(S) THEN S
    ELSE IF S.poolPromise.state \in {"null", "pending"} THEN Await(Connect(S))
    ELSE IF S.poolPromise.state = "rejected"
    THEN Respond([S EXCEPT !.log = Append(@, "error")], 500, NoBody)
    ELSE [S EXCEPT !.pool = TRUE, !.conn = S.poolPromise.id]

\* getPool() that forgets a promise that has rejected: the call that finds
\* one connects again.
GetPoolRetrying(S) ==
    IF ~Live(S) THEN S
    ELSE IF S.poolPromise.state \in {"null", "rejected"} THEN Await(Connect(S))
    ELSE IF S.poolPromise.state = "pending" THEN Await(S)
    ELSE [S EXCEPT !.pool = TRUE, !.conn = S.poolPromise.id]

\* const pool = await getPool() inside the try block of a handler (part_003
\* lines 17-31): the memoized promise, made by the first call. A rejected
\* promise throws at the await, and the catch block answers 500.
GetPool(S) ==
    IF ~Live(S) THEN S
    ELSE IF S.poolPromise.state = "null" THEN Await(Connect(S))
    ELSE IF S.poolPromise.state = "pending" THEN Await(S)
    ELSE IF S.poolPromise.state = "rejected"
    THEN Respond([S EXCEPT !.log = Append(@, "error")], 500, NoBody)
    ELSE [S EXCEPT !.pool = TRUE, !.conn = S.poolPromise.id]

\* pool.transaction(); await transaction.begin().
Begin(S) ==
    LET E == Exec(S, "begin") IN
    IF ~Live(E) THEN E ELSE [E EXCEPT !.txn = "active"]

\* A SELECT: its rows are read from the frame by the caller.
Select(S) == Exec(S, "select")

\* An INSERT into a table whose id column is no IDENTITY: the next id stays.
InsertSameId(S, table, row, t) ==
    LET E == Exec(S, "insert") IN
    IF ~Live(E) THEN E
    ELSE [E EXCEPT !.db[table] = @ \cup {row @@ [id |-> S.ids[table], tx |-> t]},
                   !.out = S.ids[table]]

\* INSERT INTO table ... OUTPUT INSERTED.id: the row gets the next IDENTITY
\* value, which the statement returns (out), and the number t of the transaction that inserts it (a row
\* inserted through pool.request() is committed at once).
Insert(S, table, row, t) ==
    LET E == Exec(S, "insert") IN
    IF ~Live(E) THEN E
    ELSE [E EXCEPT !.db[table] = @ \cup {row @@ [id |-> S.ids[table], tx |-> t]},
                   !.ids[table] = @ + 1, !.out = S.ids[table]]

\* A handler that commits where it should roll back.
RollbackAsCommit(S) ==
    IF ~Live(S) THEN S
    ELSE [S EXCEPT !.committed = @ \cup {S.tid},
                   !.txn = "rolledback", !.log = Append(@, "rollback")]

\* await transaction.rollback(): every row the transaction inserted is deleted.
Rollback(S) ==
    IF ~Live(S) THEN S
    ELSE [S EXCEPT !.db = [t \in TableNames |-> {r \in S.db[t] : r.tx # S.tid}],
                   !.txn = "rolledback", !.log = Append(@, "rollback")]

\* await transaction.commit(): the rows of the transaction become visible
\* at once.
Commit(S) ==
    LET E == Exec(S, "commit") IN
    IF ~Live(E) THEN E
    ELSE [E EXCEPT !.committed = @ \cup {S.tid}, !.txn = "committed"]

\* const var = v: a local of the handler.
Set(S, var, v) == IF ~Live(S) THEN S ELSE [S EXCEPT ![var] = v]

\* const var = result.recordset[0].id, the id the last INSERT returned.
Keep(S, var) == Set(S, var, S.out)

\* The handler stops at its commit: the commit is its next step.
AtCommit(S) == IF ~Live(S) THEN S ELSE [S EXCEPT !.pc = "commit"]

\* await transaction.rollback(); return createErrorResponse(status, ...).
Abort(S, status) == Respond(Rollback(S), status, NoBody)

\* The frames of the calls of handler h with a JSON body: a request of R and
\* the statement the store fails, or a body that is no JSON (the text of
\* request cut, cut short).
Bodies(h, R, cut) ==
    {Call(h, req, f) : req \in R, f \in FaultPoints} \cup {NoJson(Call(h, cut, 0))}

\* -------------------------------------------------------------- query rows
\* The orders in which a query with ORDER BY k1, k2 may return the rows S:
\* ascending in <<k1, k2>> (NULL first), rows with equal keys in any order.
Before(a, b) == a.k1 < b.k1 \/ (a.k1 = b.k1 /\ a.k2 <= b.k2)

RECURSIVE Orders(_)
Orders(S) ==
    IF S = {} THEN {<<>>}
    ELSE UNION { {<<x>> \o t : t \in Orders(S \ {x})} :
                 x \in {m \in S : \A y \in S : Before(m, y)} }

\* The orders in which a query without ORDER BY may return the rows S.
RECURSIVE AnyOrder(_)
AnyOrder(S) ==
    IF S = {} THEN {<<>>}
    ELSE UNION { {<<x>> \o t : t \in AnyOrder(S \ {x})} : x \in S }

\* The step of slot p that takes frame S: the store and the invocation
\* become those of the frame.
Step(p, S) ==
    /\ db' = S.db
    /\ nextId' = S.ids
    /\ committed' = S.committed
    /\ faults' = S.faults
    /\ poolPromise' = S.poolPromise
    /\ connects' = S.connects
    /\ inv' = [inv EXCEPT ![p] = InvOf(S)]

\* The 201 response returned without the commit.
ReturnUncommitted(S) == Respond(S, 201, [NoBody EXCEPT !.id = S.id])

\* await transaction.commit(); return { status: 201, ... } with the new id
\* (createQuestion.ts lines 204-212, editQuestion.ts lines 341-350 and
\* 541-549, part_001 lines 103-111).
CommitAndReturn(S) ==
    LET s1 == Commit(S) IN Respond(s1, 201, [NoBody EXCEPT !.id = S.id])

\* ========================================================== createQuestion
\* src/src/functions/createQuestion.ts (handler "createQuestion"), and the
\* copy of the handler in src/src/functions/editQuestion.ts, lines 387-555
\* (handler "createQuestionB"). The copy stores no questions.position, no
\* image_urls and no question_options.position, and gives the link row
\* MAX(position) + 1 of the form translation's link rows.
Question(type, description) ==
    [description |-> description, question_type |-> type, required |-> FALSE,
     question_text |-> "Q1?", image_urls |-> Absent]

Option(description) == [description |-> description, language |-> "en"]

OptionInputs ==
    { Absent, Arr(<<Option("A"), Option("B")>>), Arr(<<Option("A"), Option(NoStr)>>) }

CreateQuestionRequests ==
    { [username |-> "a@b.com", form_type |-> "flash", form_language |-> l,
       question |-> Question("text", "d"), options |-> o] :
        l \in {"en", "es"}, o \in OptionInputs }
    \cup
    { [username |-> u[1], form_type |-> u[2], form_language |-> "en",
       question |-> Question(u[3], u[4]), options |-> Absent] :
        u \in { <<"x@y.z", "flash", "text", "d">>, <<"a@b.com", "touchup", "text", "d">>,
                <<"c@d.com", "flash", "text", "d">>, <<NoStr, "flash", "text", "d">>,
                <<"a@b.com", "flash", "text", NoStr>>,
                <<"a@b.com", "flash", "radio_image", "d">> } }

\* The request whose body arrives cut short.
CutQuestion ==
    [username |-> "a@b.com", form_type |-> "flash", form_language |-> "en",
     question |-> Question("text", "d"), options |-> Absent]

\* createQuestion.ts lines 31-37 (editQuestion.ts lines 392-399): the
\* required fields.
MissingQuestionField(req) ==
    \/ Falsy(req.username) \/ Falsy(req.form_type) \/ Falsy(req.form_language)
    \/ Falsy(req.question.description) \/ Falsy(req.question.question_type)
    \/ Falsy(req.question.question_text)

\* createQuestion.ts lines 40-43: radio_image questions need image_urls.
MissingImageUrls(req) ==
    /\ req.question.question_type = "radio_image"
    /\ (~req.question.image_urls.isArray \/ req.question.image_urls.items = <<>>)

\* The id of the form translation the question goes to (0: the lookup
\* returned before it found one).
FormTranslationOf(req) ==
    LET T == { t \in form_translations :
                 /\ t.language = req.form_language
                 /\ \E u \in users, f \in forms :
                       /\ u.email = req.username
                       /\ f.user_id = u.id /\ f.category = req.form_type
                       /\ t.form_id = f.id }
    IN  IF T = {} THEN 0 ELSE (CHOOSE t \in T : TRUE).id

\* createQuestion.ts lines 31-43: the required fields, and the image_urls
\* of a radio_image question.
createQuestion_validate(S) ==
    IF MissingQuestionField(S.req) \/ MissingImageUrls(S.req)
    THEN Respond(S, 400, NoBody) ELSE S

\* editQuestion.ts lines 392-399: the required fields.
createQuestionB_validate(S) ==
    IF MissingQuestionField(S.req) THEN Respond(S, 400, NoBody) ELSE S

\* createQuestion.ts lines 55-62 (editQuestion.ts lines 412-420): the user.
createQuestion_user(S) ==
    IF \A u \in users : u.email # S.req.username THEN Abort(S, 404) ELSE S

\* createQuestion.ts lines 64-73 (editQuestion.ts lines 422-431): the form
\* of the user with the category.
createQuestion_form(S) ==
    IF \A u \in users, f \in forms :
          ~(u.email = S.req.username /\ f.user_id = u.id /\ f.category = S.req.form_type)
    THEN Abort(S, 404) ELSE S

\* createQuestion.ts lines 75-84 (editQuestion.ts lines 433-442): the
\* translation of the form in the language, formTranslationId.
createQuestion_formTranslation(S) ==
    IF FormTranslationOf(S.req) = 0 THEN Abort(S, 404)
    ELSE Set(S, "ft", FormTranslationOf(S.req))

\* createQuestion.ts lines 45-84 (editQuestion.ts lines 401-442): getPool,
\* begin, then the three lookups, a SELECT each.
createQuestion_lookup(S) ==
    LET s1 == Begin(GetPool(S))
        s2 == createQuestion_user(Select(s1))
        s3 == createQuestion_form(Select(s2))
    IN  createQuestion_formTranslation(Select(s3))

\* ISNULL(MAX(position), 0) over the rows R: MAX skips NULL.
MaxPosition(R) ==
    LET P == {x.position : x \in R} \ {NULL} IN IF P = {} THEN 0 ELSE Max(P)

\* createQuestion.ts lines 88-93: the questions linked to the form translation.
QuestionsOfFormTranslation(S, formTranslationId, t) ==
    { q \in View(S, "questions", t) :
        \E qt \in View(S, "question_translations", t),
           fqt \in View(S, "form_question_translations", t) :
            /\ q.id = qt.question_id
            /\ qt.id = fqt.question_translation_id
            /\ fqt.form_translation_id = formTranslationId }

\* createQuestion.ts lines 86-100: questionPosition = maxPos + 1.
QuestionPosition(S, formTranslationId) ==
    MaxPosition(QuestionsOfFormTranslation(S, formTranslationId, TxRequest(S))) + 1

\* The max position read without "WHERE question_id = @questionId": over the
\* options of every question.
OptionPositionOfAll(S, questionId) ==
    MaxPosition(View(S, "question_options", TxRequest(S)))

\* createQuestion.ts lines 139-151: the max position of the question's options.
OptionPosition(S, questionId) ==
    MaxPosition({o \in View(S, "question_options", TxRequest(S)) : o.question_id = questionId})

\* editQuestion.ts lines 518-528: MAX(position) + 1 over the link rows of the
\* form translation.
LinkPosition(S, formTranslationId) ==
    MaxPosition({l \in View(S, "form_question_translations", TxRequest(S)) :
                   l.form_translation_id = formTranslationId}) + 1

\* createQuestion.ts lines 86-100: questionPosition.
createQuestion_position(S) == Set(S, "pos", QuestionPosition(S, S.ft))

\* createQuestion.ts lines 102-119: the questions row, questionId.
createQuestion_question(S) ==
    Insert(S, "questions",
           [description |-> S.req.question.description,
            question_type |-> S.req.question.question_type,
            required |-> S.req.question.required,
            position |-> S.pos, image_urls |-> S.req.question.image_urls],
           TxRequest(S))

\* editQuestion.ts lines 444-459: the questions row, without position and
\* image_urls.
createQuestionB_question(S) ==
    Insert(S, "questions",
           [description |-> S.req.question.description,
            question_type |-> S.req.question.question_type,
            required |-> S.req.question.required,
            position |-> NULL, image_urls |-> Absent],
           TxRequest(S))

\* createQuestion.ts lines 121-137 (editQuestion.ts lines 461-477): the
\* translation of the question, questionTranslationId.
createQuestion_translation(S) ==
    Insert(S, "question_translations",
           [question_id |-> S.id, language |-> S.req.form_language,
            question_text |-> S.req.question.question_text], TxRequest(S))

\* createQuestion.ts lines 155-158 (editQuestion.ts lines 485-488): option
\* i has its description and its language.
createQuestion_option(S) ==
    IF \/ Falsy(S.req.options.items[S.i].description)
       \/ Falsy(S.req.options.items[S.i].language)
    THEN Abort(S, 400) ELSE S

\* createQuestion.ts lines 160-178: the row of option i at the next
\* position, optionId.
createQuestion_optionRow(S) ==
    Insert(S, "question_options", [question_id |-> S.id, position |-> S.pos],
           TxRequest(S))

\* editQuestion.ts lines 490-501: the row of option i, without position.
createQuestionB_optionRow(S) ==
    Insert(S, "question_options", [question_id |-> S.id, position |-> NULL],
           TxRequest(S))

\* createQuestion.ts lines 180-190 (editQuestion.ts lines 503-514): the
\* translation of option i.
createQuestion_optionTranslation(S) ==
    Insert(S, "question_option_translations",
           [option_id |-> S.out, language |-> S.req.options.items[S.i].language,
            option_text |-> S.req.options.items[S.i].description], TxRequest(S))

\* The next turn of a loop.
NextTurn(S) == Set(S, "i", S.i + 1)

\* createQuestion.ts lines 153-191, the loop from option S.i on: validate the
\* option, insert it at the next position (currentPosition++), insert its
\* translation.
RECURSIVE createQuestion_options(_)
createQuestion_options(S) ==
    IF ~Live(S) \/ S.i > Len(S.req.options.items) THEN S
    ELSE LET s1 == Set(createQuestion_option(S), "pos", S.pos + 1)
             s2 == createQuestion_optionTranslation(createQuestion_optionRow(s1))
         IN  createQuestion_options(NextTurn(s2))

\* editQuestion.ts lines 482-515, the loop from option S.i on.
RECURSIVE createQuestionB_options(_)
createQuestionB_options(S) ==
    IF ~Live(S) \/ S.i > Len(S.req.options.items) THEN S
    ELSE LET s1 == createQuestionB_optionRow(createQuestion_option(S))
         IN  createQuestionB_options(NextTurn(createQuestion_optionTranslation(s1)))

\* createQuestion.ts lines 139-192: "if (options && Array.isArray(options))":
\* the max position of the question's options is read, then the loop.
createQuestion_allOptions(S) ==
    IF ~S.req.options.isArray THEN S
    ELSE LET s1 == Select(S)
         IN  createQuestion_options(Set(s1, "pos", OptionPosition(S, S.id)))

\* editQuestion.ts lines 480-516.
createQuestionB_allOptions(S) ==
    IF ~S.req.options.isArray THEN S ELSE createQuestionB_options(S)

\* createQuestion.ts lines 194-202: the link row, without position.
createQuestion_link(S) ==
    Insert(S, "form_question_translations",
           [form_translation_id |-> S.ft, question_translation_id |-> S.qt,
            position |-> NULL], TxRequest(S))

\* editQuestion.ts lines 518-539: the link row at MAX(position) + 1.
createQuestionB_link(S) ==
    Insert(S, "form_question_translations",
           [form_translation_id |-> S.ft, question_translation_id |-> S.qt,
            position |-> LinkPosition(S, S.ft)], TxRequest(S))

\* createQuestion.ts lines 26-202: the handler up to its commit.
createQuestion_run(S) ==
    LET s1 == createQuestion_lookup(createQuestion_validate(Json(S)))
        s2 == createQuestion_position(Select(s1))
        s3 == Keep(createQuestion_question(s2), "id")
        s4 == Keep(createQuestion_translation(s3), "qt")
        s5 == createQuestion_allOptions(s4)
    IN  AtCommit(createQuestion_link(s5))

\* editQuestion.ts lines 387-539: the copy of the handler up to its commit.
createQuestionB_run(S) ==
    LET s1 == createQuestion_lookup(createQuestionB_validate(Json(S)))
        s2 == Keep(createQuestionB_question(s1), "id")
        s3 == Keep(createQuestion_translation(s2), "qt")
        s4 == createQuestionB_allOptions(s3)
    IN  AtCommit(createQuestionB_link(Select(s4)))

createQuestion(p) ==
    /\ Free(p)
    /\ \E S \in Bodies("createQuestion", CreateQuestionRequests, CutQuestion) :
          Step(p, createQuestion_run(S))
    /\ nextInv' = nextInv + 1

createQuestion_commit(p) ==
    /\ Running(p, "createQuestion", "commit")
    /\ Step(p, CommitAndReturn(Resume(p)))
    /\ UNCHANGED nextInv

createQuestionB(p) ==
    /\ Free(p)
    /\ \E S \in Bodies("createQuestionB", CreateQuestionRequests, CutQuestion) :
          Step(p, createQuestionB_run(S))
    /\ nextInv' = nextInv + 1

createQuestionB_commit(p) ==
    /\ Running(p, "createQuestionB", "commit")
    /\ Step(p, CommitAndReturn(Resume(p)))
    /\ UNCHANGED nextInv


\* ========================================================== createResponse
\* src/unnamed/part_001
Answer(q) == [question_id |-> q, answer_text |-> "t"]

CreateResponseRequests ==
    { [form_id |-> 1, answers |-> a] :
        a \in { Absent, Arr(<<>>), Arr(<<Answer(1)>>), Arr(<<Answer(1), Answer(2)>>),
                Arr(<<Answer(NoId), Answer(2)>>), Arr(<<Answer(1), Answer(NoId)>>) } }
    \cup { [form_id |-> 2, answers |-> Arr(<<Answer(1)>>)],
           [form_id |-> 9, answers |-> Arr(<<>>)],
           [form_id |-> NoId, answers |-> Arr(<<>>)] }

\* The request whose body arrives cut short.
CutResponse == [form_id |-> 1, answers |-> Arr(<<>>)]

\* Lines 70-82: "SELECT q.id FROM questions q JOIN question_translations qt
\* JOIN form_question_translations fqt JOIN form_translations ft
\* WHERE q.id = @questionId AND ft.form_id = @formId".
QuestionOfForm(S, questionId, formId, t) ==
    { j \in View(S, "questions", t) \X View(S, "question_translations", t)
            \X View(S, "form_question_translations", t) \X form_translations :
        /\ j[1].id = j[2].question_id
        /\ j[2].id = j[3].question_translation_id
        /\ j[3].form_translation_id = j[4].id
        /\ j[1].id = questionId
        /\ j[4].form_id = formId }

\* Lines 22-24: form_id and the answers array.
createResponse_validate(S) ==
    IF FalsyId(S.req.form_id) \/ ~S.req.answers.isArray
    THEN Respond(S, 400, NoBody) ELSE S

\* Lines 33-42: the form exists.
createResponse_form(S) ==
    IF \A f \in forms : f.id # S.req.form_id THEN Abort(S, 404) ELSE S

\* Lines 44-58: the responses row, responseId.
createResponse_response(S) ==
    Insert(S, "responses", [form_id |-> S.req.form_id], TxRequest(S))

\* Lines 61-67: answer i has its question_id.
createResponse_answer(S) ==
    IF FalsyId(S.req.answers.items[S.i].question_id) THEN Abort(S, 400) ELSE S

\* The answer is inserted whatever its question.
createResponse_questionUnchecked(S) == S

\* Lines 69-86: the question of answer i belongs to the form.
createResponse_question(S) ==
    IF QuestionOfForm(S, S.req.answers.items[S.i].question_id, S.req.form_id,
                      TxRequest(S)) = {}
    THEN Abort(S, 404) ELSE S

\* Lines 88-100: the answers row of answer i.
createResponse_answerRow(S) ==
    Insert(S, "answers",
           [response_id |-> S.id, question_id |-> S.req.answers.items[S.i].question_id,
            answer_text |-> S.req.answers.items[S.i].answer_text], TxRequest(S))

\* Lines 60-101, the loop from answer S.i on: validate the answer, verify that
\* its question belongs to the form, insert the answer.
RECURSIVE createResponse_answers(_)
createResponse_answers(S) ==
    IF ~Live(S) \/ S.i > Len(S.req.answers.items) THEN S
    ELSE LET s1 == createResponse_question(Select(createResponse_answer(S)))
         IN  createResponse_answers(NextTurn(createResponse_answerRow(s1)))

\* Lines 17-101: the handler up to its commit.
createResponse_run(S) ==
    LET s1 == Begin(GetPool(createResponse_validate(Json(S))))
        s2 == createResponse_response(createResponse_form(Select(s1)))
    IN  AtCommit(createResponse_answers(Keep(s2, "id")))

createResponse(p) ==
    /\ Free(p)
    /\ \E S \in Bodies("createResponse", CreateResponseRequests, CutResponse) :
          Step(p, createResponse_run(S))
    /\ nextInv' = nextInv + 1

createResponse_commit(p) ==
    /\ Running(p, "createResponse", "commit")
    /\ Step(p, CommitAndReturn(Resume(p)))
    /\ UNCHANGED nextInv

\* ============================================================= getResponse
\* src/unnamed/part_000
GetResponseRequests == {[response_id |-> r] : r \in {NoId, 1, 2}}

\* Lines 61-75, the rows of the questions query: one row per (question,
\* translation, link, form translation, answer) the joins match, one row
\* with no answer when the LEFT JOIN matches none.
ResponseRows(S, responseId, formId) ==
    LET J == { j \in View(S, "questions", PoolRequest)
                     \X View(S, "question_translations", PoolRequest)
                     \X View(S, "form_question_translations", PoolRequest)
                     \X form_translations :
                 /\ j[1].id = j[2].question_id
                 /\ j[2].id = j[3].question_translation_id
                 /\ j[3].form_translation_id = j[4].id
                 /\ j[4].form_id = formId }
        A(q) == {a \in View(S, "answers", PoolRequest) :
                   a.question_id = q /\ a.response_id = responseId}
        Row(j, aid, text) ==
            [question_id |-> j[1].id, question_text |-> j[2].question_text,
             answer_text |-> text, k1 |-> j[3].position, k2 |-> 0,
             fqt |-> j[3].id, answer |-> aid]
    IN  UNION { IF A(j[1].id) = {} THEN {Row(j, 0, NoStr)}
                ELSE {Row(j, a.id, a.answer_text) : a \in A(j[1].id)} : j \in J }

\* Lines 77-83: the QuestionAnswer a row is mapped to.
QuestionAnswer(row) ==
    [question_id |-> row.question_id, question_text |-> row.question_text,
     answer_text |-> row.answer_text]

\* Lines 36-40: response_id from the query string.
getResponse_validate(S) ==
    IF FalsyId(S.req.response_id) THEN Respond(S, 400, NoBody) ELSE S

\* Lines 42-59: the responses row; 404 when there is none.
getResponse_response(S) ==
    IF ~Live(S) THEN {S}
    ELSE IF \A x \in View(S, "responses", PoolRequest) : x.id # S.req.response_id
    THEN {Respond(S, 404, NoBody)}
    ELSE { [S EXCEPT !.pc = "questions", !.id = x.id, !.form_id = x.form_id] :
             x \in {y \in View(S, "responses", PoolRequest) : y.id = S.req.response_id} }

\* Lines 34-59.
getResponse_run(S) == getResponse_response(Select(GetPool(getResponse_validate(S))))

\* Lines 83-101: the rows mapped to the response body.
getResponse_body(S, rows) ==
    Respond(S, 200, [id |-> S.id, form_id |-> S.form_id,
                     questions |-> [n \in 1..Len(rows) |-> QuestionAnswer(rows[n])]])

\* The questions query with an empty result reported as not found.
getResponse_rowsOr404(S) ==
    IF ~Live(S) THEN {S}
    ELSE IF ResponseRows(S, S.id, S.form_id) = {} THEN {Respond(S, 404, NoBody)}
    ELSE {getResponse_body(S, rows) : rows \in Orders(ResponseRows(S, S.id, S.form_id))}

\* Lines 61-81: the questions query.
getResponse_rows(S) ==
    IF ~Live(S) THEN {S}
    ELSE {getResponse_body(S, rows) : rows \in Orders(ResponseRows(S, S.id, S.form_id))}

\* Lines 61-101.
getResponse_questions(S) == getResponse_rows(Select(S))

getResponse(p) ==
    /\ Free(p)
    /\ \E req \in GetResponseRequests, f \in FaultPoints :
          \E S \in getResponse_run(Call("getResponse", req, f)) : Step(p, S)
    /\ nextInv' = nextInv + 1

getResponse_then(p) ==
    /\ Running(p, "getResponse", "questions")
    /\ \E S \in getResponse_questions(Resume(p)) : Step(p, S)
    /\ UNCHANGED nextInv


\* ================================================== addQuestionTranslation
\* src/src/functions/editQuestion.ts, lines 183-356
OptionTranslation(id) == [option_id |-> id, option_text |-> "o"]

AddTranslation(q, language, text, form_type, options) ==
    [question_id |-> q, language |-> language, question_text |-> text,
     form_type |-> form_type, options |-> options]

AddQuestionTranslationRequests ==
    { AddTranslation(1, l, "Q1?", "flash", o) :
        l \in {"en", "es"}, o \in {Absent, Arr(<<OptionTranslation(1)>>)} }
    \cup
    { AddTranslation(1, "es", "Q1?", "flash", o) :
        o \in { Arr(<<OptionTranslation(1), OptionTranslation(NoId)>>),
                Arr(<<OptionTranslation(9)>>) } }
    \cup
    { AddTranslation(1, "fr", "Q1?", "flash", Absent),
      AddTranslation(1, "en", "Q1?", "bogus", Absent),
      AddTranslation(1, "en", NoStr, "flash", Absent),
      AddTranslation(NoId, "en", "Q1?", "flash", Absent),
      AddTranslation(1, "es", "Q1?", "custom", Absent),
      AddTranslation(7, "es", "Q1?", "flash", Absent) }

\* The request whose body arrives cut short.
CutTranslation == AddTranslation(7, "es", "Q1?", "flash", Absent)

\* Lines 187-200: the required fields, the language, the form type.
InvalidTranslation(req) ==
    \/ FalsyId(req.question_id) \/ Falsy(req.language)
    \/ Falsy(req.question_text) \/ Falsy(req.form_type)
    \/ req.language \notin {"en", "es"}
    \/ req.form_type \notin {"custom", "flash", "touchup"}

\* Lines 226-233: the translations of the question in the language.
ExistingTranslation(S, questionId, language) ==
    { x \in View(S, "question_translations", TxRequest(S)) :
        x.question_id = questionId /\ x.language = language }

\* Lines 286-293: the translations of the option in the language.
ExistingOptionTranslation(S, optionId, language) ==
    { x \in View(S, "question_option_translations", TxRequest(S)) :
        x.option_id = optionId /\ x.language = language }

\* The form translations of the forms of the category, whatever their
\* language.
FormTranslationsOfAnyLanguage(form_type, language) ==
    { ft \in form_translations :
        \E f \in forms : f.id = ft.form_id /\ f.category = form_type }

\* Lines 315-324: the form translations in the language of the forms of the
\* category, whoever owns the form.
FormTranslationsOfCategory(form_type, language) ==
    { ft \in form_translations :
        /\ ft.language = language
        /\ \E f \in forms : f.id = ft.form_id /\ f.category = form_type }

\* The required fields alone are validated before the transaction.
addQuestionTranslation_validateFields(S) ==
    IF \/ FalsyId(S.req.question_id) \/ Falsy(S.req.language)
       \/ Falsy(S.req.question_text) \/ Falsy(S.req.form_type)
    THEN Respond(S, 400, NoBody) ELSE S

\* Lines 187-200.
addQuestionTranslation_validate(S) ==
    IF InvalidTranslation(S.req) THEN Respond(S, 400, NoBody) ELSE S

\* Lines 212-223: the question exists.
addQuestionTranslation_question(S) ==
    IF \A q \in View(S, "questions", TxRequest(S)) : q.id # S.req.question_id
    THEN Abort(S, 404) ELSE S

\* The translation is inserted whether the question has one or not.
addQuestionTranslation_existingUnchecked(S) == S

\* Lines 225-238: the question has no translation in the language.
addQuestionTranslation_existing(S) ==
    IF ExistingTranslation(S, S.req.question_id, S.req.language) # {}
    THEN Abort(S, 409) ELSE S

\* Lines 240-257: the translation row, questionTranslationId.
addQuestionTranslation_translation(S) ==
    Insert(S, "question_translations",
           [question_id |-> S.req.question_id, language |-> S.req.language,
            question_text |-> S.req.question_text], TxRequest(S))

\* Lines 265-268: option translation i has option_id and option_text.
addQuestionTranslation_option(S) ==
    IF \/ FalsyId(S.req.options.items[S.i].option_id)
       \/ Falsy(S.req.options.items[S.i].option_text)
    THEN Abort(S, 400) ELSE S

\* Lines 270-283: the option belongs to the question.
addQuestionTranslation_optionOfQuestion(S) ==
    IF \A x \in View(S, "question_options", TxRequest(S)) :
          ~(x.id = S.req.options.items[S.i].option_id /\ x.question_id = S.req.question_id)
    THEN Abort(S, 404) ELSE S

\* Lines 285-298: the option has no translation in the language.
addQuestionTranslation_existingOption(S) ==
    IF ExistingOptionTranslation(S, S.req.options.items[S.i].option_id,
                                 S.req.language) # {}
    THEN Abort(S, 409) ELSE S

\* Lines 300-310: the translation row of option i.
addQuestionTranslation_optionRow(S) ==
    Insert(S, "question_option_translations",
           [option_id |-> S.req.options.items[S.i].option_id,
            language |-> S.req.language,
            option_text |-> S.req.options.items[S.i].option_text], TxRequest(S))

\* Lines 260-311, the loop from option S.i on: validate the option
\* translation, verify that the option belongs to the question and has no
\* translation in the language, insert the translation.
RECURSIVE addQuestionTranslation_options(_)
addQuestionTranslation_options(S) ==
    IF ~Live(S) \/ S.i > Len(S.req.options.items) THEN S
    ELSE LET s1 == addQuestionTranslation_optionOfQuestion(
                       Select(addQuestionTranslation_option(S)))
             s2 == addQuestionTranslation_optionRow(
                       addQuestionTranslation_existingOption(Select(s1)))
         IN  addQuestionTranslation_options(NextTurn(s2))

\* Lines 259-312: "if (options && Array.isArray(options))".
addQuestionTranslation_allOptions(S) ==
    IF ~S.req.options.isArray THEN S ELSE addQuestionTranslation_options(S)

\* Lines 326-339: the link row to form translation ft, without position.
addQuestionTranslation_linkRow(S, ft) ==
    Insert(S, "form_question_translations",
           [form_translation_id |-> ft, question_translation_id |-> S.qt,
            position |-> NULL], TxRequest(S))

\* Lines 314-339: the link row goes to the first row of the form translation
\* query, which has no ORDER BY: any of its rows. No link row when the query
\* has no row.
addQuestionTranslation_link(S) ==
    IF FormTranslationsOfCategory(S.req.form_type, S.req.language) = {}
    THEN {AtCommit(S)}
    ELSE { AtCommit(addQuestionTranslation_linkRow(S, ft.id)) :
             ft \in FormTranslationsOfCategory(S.req.form_type, S.req.language) }

\* Lines 183-339: the handler up to its commit.
addQuestionTranslation_run(S) ==
    LET s1 == Begin(GetPool(addQuestionTranslation_validate(Json(S))))
        s2 == addQuestionTranslation_question(Select(s1))
        s3 == addQuestionTranslation_existing(Select(s2))
        s4 == Keep(Keep(addQuestionTranslation_translation(s3), "qt"), "id")
        s5 == addQuestionTranslation_allOptions(s4)
    IN  addQuestionTranslation_link(Select(s5))

addQuestionTranslation(p) ==
    /\ Free(p)
    /\ \E C \in Bodies("addQuestionTranslation", AddQuestionTranslationRequests,
                       CutTranslation) :
          \E S \in addQuestionTranslation_run(C) : Step(p, S)
    /\ nextInv' = nextInv + 1

addQuestionTranslation_commit(p) ==
    /\ Running(p, "addQuestionTranslation", "commit")
    /\ Step(p, CommitAndReturn(Resume(p)))
    /\ UNCHANGED nextInv

\* ============================================================ editQuestion
\* src/src/functions/editQuestion.ts, lines 18-102. The handler opens no
\* transaction: each UPDATE goes through pool.request() and is committed as
\* it is executed.
Translation(id) == [translation_id |-> id, question_text |-> "Q1!"]

\* The fields of the body other than question_id and translations: a
\* function whose domain is the fields the body has.
NoFields == [f \in {} |-> NoStr]

EditQuestionRequests ==
    { [question_id |-> 1, fields |-> fs, translations |-> t] :
        fs \in {NoFields, [position |-> 5], [description |-> "d2", required |-> TRUE]},
        t \in { Absent, Arr(<<Translation(1)>>), Arr(<<Translation(2)>>),
                Arr(<<Translation(1), Translation(NoId)>>) } }
    \cup { [question_id |-> NoId, fields |-> [position |-> 5], translations |-> Absent] }

\* The request whose body arrives cut short.
CutEdit == [question_id |-> 1, fields |-> NoFields, translations |-> Absent]

\* An UPDATE of the row id of the table waits while a transaction that has
\* neither committed nor rolled back holds the row it inserted.
Blocked(table, id) == \E r \in db[table] : r.id = id /\ r.tx \notin committed

\* The UPDATE of the questions row, when the request has one, does not wait.
editQuestion_unblocked(req) ==
    DOMAIN req.fields # {} => ~Blocked("questions", req.question_id)

\* "UPDATE table SET fields" with no WHERE clause: every row of the table.
UpdateEveryRow(S, table, id, fields) ==
    LET E == Exec(S, "update") IN
    IF ~Live(E) THEN E
    ELSE [E EXCEPT !.db[table] =
            { [k \in DOMAIN r |-> IF k \in DOMAIN fields THEN fields[k] ELSE r[k]] :
                r \in @ }]

\* "UPDATE table SET fields WHERE id = @id" through pool.request().
Update(S, table, id, fields) ==
    LET E == Exec(S, "update") IN
    IF ~Live(E) THEN E
    ELSE [E EXCEPT !.db[table] =
            { IF r.id = id
              THEN [k \in DOMAIN r |-> IF k \in DOMAIN fields THEN fields[k] ELSE r[k]]
              ELSE r : r \in @ }]

\* Lines 74: "body.translations && body.translations.length > 0".
HasTranslations(req) == req.translations.isArray /\ req.translations.items # <<>>

\* Lines 22-24: question_id.
editQuestion_validate(S) ==
    IF FalsyId(S.req.question_id) THEN Respond(S, 400, NoBody) ELSE S

\* Lines 28-72: UPDATE questions when the body has a field to set.
editQuestion_question(S) ==
    IF DOMAIN S.req.fields = {} THEN S
    ELSE Update(S, "questions", S.req.question_id, S.req.fields)

\* Lines 74-97: into the loop when the body has translations, else 200.
editQuestion_loop(S) ==
    IF ~Live(S) THEN S
    ELSE IF HasTranslations(S.req) THEN [S EXCEPT !.pc = "translations"]
    ELSE Respond(S, 200, NoBody)

\* Lines 18-72.
editQuestion_run(S) ==
    editQuestion_loop(
        editQuestion_question(GetPool(editQuestion_validate(JsonInTry(S)))))

\* Lines 77-79: the translation of this turn has its translation_id.
editQuestion_translationId(S) ==
    IF FalsyId(S.req.translations.items[S.i].translation_id)
    THEN Respond(S, 400, NoBody) ELSE S

\* Lines 81-90: UPDATE question_translations.
editQuestion_translationRow(S) ==
    Update(S, "question_translations", S.req.translations.items[S.i].translation_id,
           [question_text |-> S.req.translations.items[S.i].question_text])

\* Lines 75-97, the end of a turn: the next translation, or 200 after the last.
editQuestion_next(S) ==
    IF S.i = Len(S.req.translations.items) THEN Respond(S, 200, NoBody)
    ELSE NextTurn(S)

\* Lines 75-97, one turn of the loop.
editQuestion_translation(S) ==
    editQuestion_next(editQuestion_translationRow(editQuestion_translationId(S)))

editQuestion(p) ==
    /\ Free(p)
    /\ \E S \in Bodies("editQuestion", EditQuestionRequests, CutEdit) :
          /\ editQuestion_unblocked(S.req)
          /\ Step(p, editQuestion_run(S))
    /\ nextInv' = nextInv + 1

editQuestion_then(p) ==
    /\ Running(p, "editQuestion", "translations")
    /\ ~Blocked("question_translations",
                inv[p].req.translations.items[inv[p].i].translation_id)
    /\ Step(p, editQuestion_translation(Resume(p)))
    /\ UNCHANGED nextInv

\* ========================================================= getAllQuestions
\* src/src/functions/getAllQuestions.ts (handler "getAllQuestions") and the
\* earlier copy src/unnamed/part_002 (handler "getAllQuestionsB"), which
\* reads no position, has no ORDER BY, does not sort and answers 200 when
\* the query returns no row.
GetAllQuestionsRequests ==
    { [username |-> u[1], formLanguage |-> u[2], formType |-> "flash"] :
        u \in { <<"a@b.com", "en">>, <<"a@b.com", "es">>, <<"c@d.com", "es">>,
                <<"x@y.z", "en">>, <<NoStr, "en">> } }

\* The request of part_002 whose body arrives cut short.
CutQuery == [username |-> "a@b.com", formLanguage |-> "en", formType |-> "flash"]

\* getAllQuestions.ts lines 49-73 (part_002 lines 49-69): the rows of the
\* query. The link and the option translation a row comes from are kept, so
\* that two rows with the same columns stay two rows.
QuestionRows(S, userId, formType, formLanguage) ==
    LET J == { j \in forms \X form_translations
                     \X View(S, "form_question_translations", PoolRequest)
                     \X View(S, "question_translations", PoolRequest)
                     \X View(S, "questions", PoolRequest) :
                 /\ j[1].user_id = userId
                 /\ j[1].id = j[2].form_id
                 /\ j[2].id = j[3].form_translation_id
                 /\ j[3].question_translation_id = j[4].id
                 /\ j[4].question_id = j[5].id
                 /\ j[1].category = formType
                 /\ j[2].language = formLanguage }
        O(q) == {o \in View(S, "question_options", PoolRequest) : o.question_id = q}
        T(o) == {t \in View(S, "question_option_translations", PoolRequest) :
                   t.option_id = o}
        Row(j, optionId, optionPosition, qot, text) ==
            [questionId |-> j[5].id, description |-> j[5].description,
             question_type |-> j[5].question_type, required |-> j[5].required,
             question_text |-> j[4].question_text, optionId |-> optionId,
             optionDescription |-> text, k2 |-> optionPosition,
             k1 |-> j[3].position, form_id |-> j[1].id, fqt |-> j[3].id, qot |-> qot]
    IN  UNION { IF O(j[5].id) = {} THEN {Row(j, NoId, NULL, 0, NoStr)}
                ELSE UNION { IF T(o.id) = {} THEN {Row(j, o.id, o.position, 0, NoStr)}
                             ELSE {Row(j, o.id, o.position, t.id, t.option_text) :
                                     t \in T(o.id)} : o \in O(j[5].id) } : j \in J }

\* The number "a.position - b.position" makes of a position: null counts 0.
Num(x) == IF x = NULL THEN 0 ELSE x

\* Array.prototype.sort((a, b) => a.position - b.position): stable.
RECURSIVE SortByPosition(_)
SortByPosition(s) ==
    IF s = <<>> THEN <<>>
    ELSE LET m == CHOOSE i \in 1..Len(s) : \A j \in 1..Len(s) :
                     \/ Num(s[i].position) < Num(s[j].position)
                     \/ (Num(s[i].position) = Num(s[j].position) /\ i <= j)
         IN  <<s[m]>> \o SortByPosition(SubSeq(s, 1, m - 1) \o SubSeq(s, m + 1, Len(s)))

\* The elements of a set of numbers in ascending order: the order in which
\* Object.values walks the integer keys of an object.
RECURSIVE Ascending(_)
Ascending(N) ==
    IF N = {} THEN <<>>
    ELSE LET m == CHOOSE x \in N : \A y \in N : x <= y
         IN  <<m>> \o Ascending(N \ {m})

\* getAllQuestions.ts lines 102-113 (part_002 lines 96-103): the options
\* pushed for question q, in the order of the rows.
OptionsOf(rows, q) ==
    LET Mine(r) == r.questionId = q /\ ~FalsyId(r.optionId)
        R == SelectSeq(rows, Mine)
    IN  [n \in 1..Len(R) |->
           [optionId |-> R[n].optionId, optionDescription |-> R[n].optionDescription,
            position |-> R[n].k2]]

\* The first of the rows that is of question q: the row that makes the entry
\* of the map.
FirstRow(rows, q) ==
    rows[CHOOSE n \in 1..Len(rows) :
           /\ rows[n].questionId = q
           /\ \A m \in 1..(n - 1) : rows[m].questionId # q]

\* getAllQuestions.ts lines 89-122: group the rows by question, sort the
\* options of each question, sort the questions.
GroupedQuestions(rows) ==
    LET ids == Ascending({rows[n].questionId : n \in 1..Len(rows)})
        Entry(q) ==
            LET r == FirstRow(rows, q) IN
            [questionId |-> r.questionId, description |-> r.description,
             question_type |-> r.question_type, required |-> r.required,
             question_text |-> r.question_text,
             options |-> SortByPosition(OptionsOf(rows, q)), position |-> r.k1]
    IN  SortByPosition([n \in 1..Len(ids) |-> Entry(ids[n])])

\* part_002 lines 80-107: group the rows by question.
GroupedQuestionsB(rows) ==
    LET ids == Ascending({rows[n].questionId : n \in 1..Len(rows)})
        Entry(q) ==
            LET r == FirstRow(rows, q)
                O == OptionsOf(rows, q)
            IN
            [questionId |-> r.questionId, description |-> r.description,
             question_type |-> r.question_type, required |-> r.required,
             question_text |-> r.question_text,
             options |-> [n \in 1..Len(O) |->
                            [optionId |-> O[n].optionId,
                             optionDescription |-> O[n].optionDescription]]]
    IN  [n \in 1..Len(ids) |-> Entry(ids[n])]

\* getAllQuestions.ts lines 28-34 (part_002 lines 31-35): the parameters.
getAllQuestions_validate(S) ==
    IF Falsy(S.req.username) \/ Falsy(S.req.formLanguage) \/ Falsy(S.req.formType)
    THEN Respond(S, 400, NoBody) ELSE S

\* getAllQuestions.ts lines 38-45 (part_002 lines 40-45): the user, userId.
getAllQuestions_user(S) ==
    IF \A u \in users : u.email # S.req.username THEN Respond(S, 404, NoBody)
    ELSE Set(S, "id", (CHOOSE u \in users : u.email = S.req.username).id)

\* getAllQuestions.ts lines 26-79 (part_002 lines 29-75): the parameters, the
\* user, the query.
getAllQuestions_lookup(S) ==
    LET s1 == Select(GetPool(getAllQuestions_validate(S)))
    IN  Select(getAllQuestions_user(s1))

\* getAllQuestions.ts lines 86-132: the rows made the response body.
getAllQuestions_body(S, rows) ==
    Respond(Set(S, "rows", rows), 200,
            [id |-> 0, form_id |-> rows[1].form_id,
             questions |-> GroupedQuestions(rows)])

\* getAllQuestions.ts lines 80-132: 404 when the query has no row.
getAllQuestions_rows(S) ==
    IF ~Live(S) THEN {S}
    ELSE IF QuestionRows(S, S.id, S.req.formType, S.req.formLanguage) = {}
    THEN {Respond(S, 404, NoBody)}
    ELSE { getAllQuestions_body(S, rows) :
             rows \in Orders(QuestionRows(S, S.id, S.req.formType, S.req.formLanguage)) }

\* part_002 lines 76-114: the rows made the response body, whatever their
\* number.
getAllQuestionsB_rows(S) ==
    IF ~Live(S) THEN {S}
    ELSE { Respond(S, 200, [id |-> 0, form_id |-> 0,
                            questions |-> GroupedQuestionsB(rows)]) :
             rows \in AnyOrder(QuestionRows(S, S.id, S.req.formType,
                                            S.req.formLanguage)) }

\* getAllQuestions.ts lines 26-137.
getAllQuestions_run(S) == getAllQuestions_rows(getAllQuestions_lookup(S))

\* part_002 lines 29-119.
getAllQuestionsB_run(S) == getAllQuestionsB_rows(getAllQuestions_lookup(Json(S)))

getAllQuestions(p) ==
    /\ Free(p)
    /\ \E req \in GetAllQuestionsRequests, f \in FaultPoints :
          \E S \in getAllQuestions_run(Call("getAllQuestions", req, f)) : Step(p, S)
    /\ nextInv' = nextInv + 1

getAllQuestionsB(p) ==
    /\ Free(p)
    /\ \E C \in Bodies("getAllQuestionsB", GetAllQuestionsRequests, CutQuery) :
          \E S \in getAllQuestionsB_run(C) : Step(p, S)
    /\ nextInv' = nextInv + 1

\* ===================================================================== run
\* The request of the question the store may hold at the start.
SeedRequest ==
    [username |-> "a@b.com", form_type |-> "flash", form_language |-> "en",
     question |-> Question("text", "d"), options |-> Arr(<<Option("A"), Option("B")>>)]

\* The response to the form of the question the store may hold at the start.
SeedResponse == [form_id |-> 1, answers |-> Arr(<<Answer(1)>>)]

\* The frame of an invocation of handler h on request req that runs alone on
\* the store of frame S.
After(S, h, req) ==
    [Idle EXCEPT !.h = h, !.req = req, !.pc = "run", !.tid = PoolRequest]
    @@ [db |-> S.db, ids |-> S.ids, committed |-> S.committed, faults |-> 0,
        poolPromise |-> S.poolPromise, connects |-> S.connects]

\* The stores a run starts from: the empty store, the store after one
\* createQuestion call on it and one createResponse call that answers the
\* question, and the store after one call of the copy of createQuestion.
Seeds ==
    { Boot("none", SeedRequest),
      CommitAndReturn(createResponse_run(
          After(CommitAndReturn(createQuestion_run(Boot("createQuestion", SeedRequest))),
                "createResponse", SeedResponse))),
      CommitAndReturn(createQuestionB_run(Boot("createQuestionB", SeedRequest))) }

\* The handler h on frame S: the frames it may end its step in.
Handler(h, S) ==
    CASE h = "createQuestion" -> {createQuestion_run(S)}
      [] h = "createQuestionB" -> {createQuestionB_run(S)}
      [] h = "createResponse" -> {createResponse_run(S)}
      [] h = "getResponse" -> getResponse_run(S)
      [] h = "addQuestionTranslation" -> addQuestionTranslation_run(S)
      [] h = "editQuestion" -> {editQuestion_run(S)}
      [] h = "getAllQuestions" -> getAllQuestions_run(S)
      [] h = "getAllQuestionsB" -> getAllQuestionsB_run(S)

\* The promise of getPool settles: connect() resolves with the pool
\* (part_003 lines 21-24), or it rejects and the rejection is thrown on
\* (lines 25-28).
connect_then ==
    /\ poolPromise.state = "pending"
    /\ \E state \in {"fulfilled", "rejected"} :
          poolPromise' = [poolPromise EXCEPT !.state = state]
    /\ UNCHANGED <<db, nextId, committed, faults, nextInv, inv, connects>>

\* The handler of slot p goes on after "await getPool()". What it has
\* executed before the await reads the request alone, so it goes on as the
\* handler does on the same request once the promise has settled.
getPool_then(p) ==
    /\ inv[p].pc = "getPool"
    /\ poolPromise.state # "pending"
    /\ inv[p].h = "editQuestion" => editQuestion_unblocked(inv[p].req)
    /\ \E f \in FaultPoints :
          \E S \in Handler(inv[p].h, [Resume(p) EXCEPT !.pc = "run", !.failAt = f]) :
              Step(p, S)
    /\ UNCHANGED nextInv

Init ==
    /\ \E S \in Seeds :
          /\ db = S.db
          /\ nextId = S.ids
          /\ committed = S.committed
    /\ faults = 0
    /\ nextInv = 1
    /\ inv = [p \in Procs |-> Idle]
    /\ poolPromise = NoPromise
    /\ connects = 0

Next ==
    \/ connect_then
    \/ \E p \in Procs :
        \/ getPool_then(p)
        \/ createQuestion(p)
        \/ createQuestion_commit(p)
        \/ createQuestionB(p)
        \/ createQuestionB_commit(p)
        \/ createResponse(p)
        \/ createResponse_commit(p)
        \/ getResponse(p)
        \/ getResponse_then(p)
        \/ addQuestionTranslation(p)
        \/ addQuestionTranslation_commit(p)
        \/ editQuestion(p)
        \/ editQuestion_then(p)
        \/ getAllQuestions(p)
        \/ getAllQuestionsB(p)

Spec == Init /\ [][Next]_vars

TypeOK ==
    /\ nextInv \in 1..(MaxInv + 1)
    /\ committed \subseteq 0..MaxInv
    /\ \A p \in Procs : inv[p].txn \in {"none", "active", "committed", "rolledback"}
    /\ poolPromise.state \in {"null", "pending", "fulfilled", "rejected"}
    /\ connects \in 0..MaxInv


\* ============================================================ properties
\* The store as a statement outside every transaction reads it.
Store == [db |-> db, committed |-> committed]

Done(p, h) == inv[p].h = h /\ inv[p].pc = "done"

Has(log, kind) == \E n \in 1..Len(log) : log[n] = kind

Count(log, kind) == Cardinality({n \in 1..Len(log) : log[n] = kind})

\* The rows the invocation of slot p inserted in its transaction and that
\* the store still holds.
OwnRows(p) == UNION { {r \in db[t] : r.tx = inv[p].tid} : t \in TableNames }

\* The handlers that write in a transaction, and the table of the first row
\* each inserts (the row whose id the handler keeps).
TxHandlers == {"createQuestion", "createQuestionB", "createResponse",
               "addQuestionTranslation"}

PrimaryTable(h) ==
    IF h = "createResponse" THEN "responses"
    ELSE IF h = "addQuestionTranslation" THEN "question_translations"
    ELSE "questions"

\* ------------------------------------------------------------------- C1
\* The handler h of slot p takes its call through its first step, when the
\* call comes in or after it has waited for the pool, and the call meets no
\* store error in the step.
Calls(p, h) ==
    /\ inv'[p].h = h
    /\ inv'[p].tid # inv[p].tid \/ inv[p].pc = "getPool"
    /\ inv'[p].pc # "getPool"
    /\ inv'[p].json
    /\ ~Has(inv'[p].log, "error")

\* The answers of the request that carry a question_id and whose question no
\* committed link ties to form_id.
C1_Unlinked(req) ==
    { n \in 1..Len(req.answers.items) :
        /\ ~FalsyId(req.answers.items[n].question_id)
        /\ QuestionOfForm(Store, req.answers.items[n].question_id, req.form_id,
                          PoolRequest) = {} }

\* Slot p takes a createResponse call that passes the validation of form_id
\* and answers and has an answer that references a question not linked to
\* form_id.
C1_Case(p) ==
    /\ Calls(p, "createResponse")
    /\ ~FalsyId(inv'[p].req.form_id)
    /\ inv'[p].req.answers.isArray
    /\ C1_Unlinked(inv'[p].req) # {}

\* The call of slot p has returned after a rollback, and the store holds no
\* row of it.
C1_Undone(p) ==
    /\ inv'[p].pc = "done"
    /\ inv'[p].txn = "rolledback"
    /\ \A t \in TableNames : \A r \in db'[t] : r.tx # inv'[p].tid

C2_Translated(req) ==
    \E r \in View(Store, "question_translations", PoolRequest) :
        r.question_id = req.question_id /\ r.language = req.language

\* The call of slot p has returned 409 and the step has changed no table: no
\* row inserted or overwritten, no id consumed, nothing committed.
C2_Conflict(p) ==
    /\ inv'[p].pc = "done"
    /\ inv'[p].status = 409
    /\ db' = db /\ nextId' = nextId /\ committed' = committed

\* C2 as stated: every addQuestionTranslation call whose (question_id,
\* language) pair already has a translation returns 409 and changes nothing.
C2_Returns409 ==
    [][ \A p \in Procs :
          (Calls(p, "addQuestionTranslation") /\ C2_Translated(inv'[p].req))
          => C2_Conflict(p) ]_vars

\* C2, amended: every addQuestionTranslation call that passes the validation
\* of its fields and whose pair already has a translation returns 409 after
\* a rollback and changes nothing.
C2_ValidReturns409 ==
    [][ \A p \in Procs :
          (/\ Calls(p, "addQuestionTranslation")
           /\ C2_Translated(inv'[p].req)
           /\ ~InvalidTranslation(inv'[p].req))
          => (C2_Conflict(p) /\ inv'[p].txn = "rolledback") ]_vars

\* A valid call for a translated pair has returned 409.
C2_Witness ==
    \E p \in Procs :
        /\ Done(p, "addQuestionTranslation")
        /\ C2_Translated(inv[p].req)
        /\ ~InvalidTranslation(inv[p].req)
        /\ inv[p].status = 409
        /\ inv[p].log = <<"begin", "select", "select", "rollback">>

\* ------------------------------------------------------------------- C3
\* Slot q takes a getAllQuestions call in this step, and the call meets no
\* store error.
C3_Reads(q) == Calls(q, "getAllQuestions")

\* The createQuestion call of slot p has returned 201 for the form
\* translation that the call taken by slot q reads.
C3_Created(p, q) ==
    /\ inv[p].h \in {"createQuestion", "createQuestionB"}
    /\ inv[p].pc = "done"
    /\ inv[p].status = 201
    /\ inv[p].req.username = inv'[q].req.username
    /\ inv[p].req.form_language = inv'[q].req.formLanguage
    /\ inv[p].req.form_type = inv'[q].req.formType

\* The position C3 expects of question id in the list qs: the maximum
\* position of the questions created before it, plus 1.
C3_Expected(qs, id) ==
    Max({0} \cup {Num(qs[n].position) : n \in {m \in 1..Len(qs) : qs[m].questionId < id}})
    + 1

\* C3: a getAllQuestions call that follows a successful createQuestion call
\* on the same form translation returns the new question at the maximum
\* position of the form's earlier questions plus 1, with an empty options
\* list when the call supplied no options.
C3_PositionIsPriorMaxPlusOne ==
    [][ \A p, q \in Procs :
          (p # q /\ C3_Reads(q) /\ C3_Created(p, q))
          => /\ inv'[q].status = 200
             /\ \E n \in 1..Len(inv'[q].body.questions) :
                  LET e == inv'[q].body.questions[n] IN
                  /\ e.questionId = inv[p].body.id
                  /\ e.position = C3_Expected(inv'[q].body.questions, inv[p].body.id)
                  /\ ~inv[p].req.options.isArray => e.options = <<>> ]_vars

\* ------------------------------------------------------------------- C4
\* C4: a getAllQuestions call for an existing user never returns 200 with an
\* empty questions list.
C4_EmptyIsNotFound ==
    \A p \in Procs :
        (/\ inv[p].h \in {"getAllQuestions", "getAllQuestionsB"}
         /\ inv[p].pc = "done"
         /\ \E u \in users : u.email = inv[p].req.username
         /\ inv[p].status = 200)
        => inv[p].body.questions # <<>>

\* ------------------------------------------------------------------- C5
\* No committed link row ties a question to a translation of the form.
C5_NoQuestion(formId) ==
    \A l \in View(Store, "form_question_translations", PoolRequest),
       ft \in form_translations :
        ~(l.form_translation_id = ft.id /\ ft.form_id = formId)

\* C5: a getResponse call that meets no store error returns 404 exactly when
\* no responses row has the requested id at its first query; once it has
\* found the row it returns 200, with an empty questions list when the form
\* has no linked question.
C5_EmptyIs200 ==
    [][ \A p \in Procs :
          /\ (Calls(p, "getResponse") /\ ~FalsyId(inv'[p].req.response_id))
             => /\ (inv'[p].pc = "done" /\ inv'[p].status = 404)
                   <=> (\A r \in View(Store, "responses", PoolRequest) :
                          r.id # inv'[p].req.response_id)
                /\ inv'[p].pc = "done" \/ inv'[p].pc = "questions"
          /\ (/\ inv[p].h = "getResponse"
              /\ inv[p].pc = "questions"
              /\ inv'[p] # inv[p]
              /\ ~Has(inv'[p].log, "error"))
             => /\ inv'[p].pc = "done"
                /\ inv'[p].status = 200
                /\ C5_NoQuestion(inv[p].form_id) => inv'[p].body.questions = <<>> ]_vars

\* A getResponse call has returned 200 with an empty questions list.
C5_Witness ==
    \E p \in Procs :
        /\ Done(p, "getResponse")
        /\ inv[p].log = <<"select", "select">>
        /\ inv[p].status = 200
        /\ inv[p].body.questions = <<>>
        /\ C5_NoQuestion(inv[p].form_id)

\* ------------------------------------------------------------------- C6
\* The createQuestion call of slot p has made its inserts: it is at its
\* commit, or it has returned 201.
C6_Created(p) ==
    /\ inv[p].h \in {"createQuestion", "createQuestionB"}
    /\ inv[p].pc = "commit" \/ (inv[p].pc = "done" /\ inv[p].status = 201)

\* The translation rows of the question of the call of slot p that the call
\* inserted and that a link row of the call ties to a form translation.
C6_Translations(p) ==
    { t \in db["question_translations"] :
        /\ t.question_id = inv[p].id
        /\ t.tx = inv[p].tid
        /\ \E l \in db["form_question_translations"] :
              l.question_translation_id = t.id /\ l.tx = inv[p].tid }

\* C6: two successful createQuestion calls with identical input create two
\* questions with distinct ids, each with a translation row and a link row
\* of its own; the ids they return are the ids of these questions, and the
\* rows are committed when the call returns.
C6_NotIdempotent ==
    \A p, q \in Procs :
        (p # q /\ C6_Created(p) /\ C6_Created(q) /\ inv[p].req = inv[q].req)
        => /\ inv[p].id # inv[q].id
           /\ \A s \in {p, q} :
                /\ Cardinality({x \in db["questions"] : x.id = inv[s].id}) = 1
                /\ \A x \in db["questions"] : x.id = inv[s].id => x.tx = inv[s].tid
                /\ C6_Translations(s) # {}
                /\ inv[s].pc = "done"
                   => (inv[s].body.id = inv[s].id /\ inv[s].tid \in committed)
           /\ \A t \in C6_Translations(p), u \in C6_Translations(q) : t.id # u.id

\* Both slots hold a createQuestion call of the same handler that has
\* returned 201, with the same input.
C6_Witness ==
    /\ C6_Created("p1") /\ C6_Created("p2")
    /\ inv["p1"].pc = "done" /\ inv["p2"].pc = "done"
    /\ inv["p1"].req = inv["p2"].req
    /\ inv["p1"].h = inv["p2"].h

\* ------------------------------------------------------------------- C7
\* C7: an addQuestionTranslation call with a missing required field, a
\* language other than en and es, or a form_type other than custom, flash
\* and touchup returns 400 with the pool not acquired, no transaction begun
\* and no statement issued.
C7_InvalidBeforePool ==
    \A p \in Procs :
        (/\ Done(p, "addQuestionTranslation")
         /\ \/ FalsyId(inv[p].req.question_id) \/ Falsy(inv[p].req.language)
            \/ Falsy(inv[p].req.question_text) \/ Falsy(inv[p].req.form_type)
            \/ inv[p].req.language \notin {"en", "es"}
            \/ inv[p].req.form_type \notin {"custom", "flash", "touchup"})
        => /\ inv[p].status = 400
           /\ ~inv[p].pool
           /\ inv[p].txn = "none"
           /\ inv[p].log = <<>>

\* A call with language "fr" has returned.
C7_Witness ==
    \E p \in Procs :
        /\ Done(p, "addQuestionTranslation")
        /\ inv[p].req.language = "fr"
        /\ inv[p].status = 400

\* ------------------------------------------------------------------- C8
\* C8: a createQuestion, createResponse or addQuestionTranslation call that
\* returns 500 after its transaction has begun has rolled the transaction
\* back.
C8_RolledBackOnError ==
    \A p \in Procs :
        (/\ inv[p].h \in TxHandlers
         /\ inv[p].pc = "done"
         /\ inv[p].status = 500
         /\ Has(inv[p].log, "begin"))
        => inv[p].txn = "rolledback"

\* ------------------------------------------------------------------- C9
\* The rows of the call of slot p that a reader outside the transaction sees.
C9_Visible(p) == {r \in OwnRows(p) : r.tx \in committed}

\* A reader outside the transaction sees the first row the call of slot p
\* inserted.
C9_PrimaryVisible(p) ==
    /\ inv[p].id # 0
    /\ \E r \in View(Store, PrimaryTable(inv[p].h), PoolRequest) : r.id = inv[p].id

\* C9: a createQuestion, createResponse or addQuestionTranslation call that
\* returns 400, 404 or 409 has rolled back whatever it inserted, and the
\* store holds no row of it; and a reader outside the transaction sees
\* either none of the rows of a call or, once the call has committed, every
\* row it inserted.
C9_AllOrNothing ==
    \A p \in Procs :
        inv[p].h \in TxHandlers =>
            /\ (inv[p].pc = "done" /\ inv[p].status \in {400, 404, 409})
               => /\ OwnRows(p) = {}
                  /\ IF Has(inv[p].log, "begin")
                     THEN inv[p].txn = "rolledback"
                          /\ inv[p].log[Len(inv[p].log)] = "rollback"
                     ELSE inv[p].txn = "none"
            /\ inv[p].txn # "committed"
               => (C9_Visible(p) = {} /\ ~C9_PrimaryVisible(p))
            /\ inv[p].txn = "committed"
               => /\ Cardinality(C9_Visible(p)) = Count(inv[p].log, "insert")
                  /\ C9_PrimaryVisible(p)

\* A call has returned 400, 404 or 409 after it had inserted rows, while the
\* other slot runs a reader.
C9_Witness ==
    \E p, q \in Procs :
        /\ inv[p].h \in TxHandlers
        /\ inv[p].pc = "done"
        /\ inv[p].status \in {400, 404, 409}
        /\ Count(inv[p].log, "insert") >= 2
        /\ inv[q].h \in {"getAllQuestions", "getAllQuestionsB", "getResponse"}
        /\ inv[q].tid > inv[p].tid

\* ------------------------------------------------------------------ C10
\* C10: a call that returns 400 has executed no INSERT and no UPDATE.
C10_NoWriteBefore400 ==
    \A p \in Procs :
        (inv[p].pc = "done" /\ inv[p].status = 400)
        => (~Has(inv[p].log, "insert") /\ ~Has(inv[p].log, "update"))

\* ------------------------------------------------------------------ C11
\* C11: the committed store holds at most one question_translations row per
\* (question_id, language) and at most one question_option_translations row
\* per (option_id, language), whatever createQuestion and
\* addQuestionTranslation calls have run and however they interleaved.
C11_OneTranslationPerLanguage ==
    /\ \A a, b \in View(Store, "question_translations", PoolRequest) :
          (a.question_id = b.question_id /\ a.language = b.language) => a.id = b.id
    /\ \A a, b \in View(Store, "question_option_translations", PoolRequest) :
          (a.option_id = b.option_id /\ a.language = b.language) => a.id = b.id

\* ------------------------------------------------------------------ C12
\* The position the createQuestion call of slot p gave its question: the
\* position of its questions row (createQuestion.ts), of its link row (the
\* copy in editQuestion.ts).
C12_Position(p) ==
    IF inv[p].h = "createQuestion"
    THEN {x.position : x \in {r \in db["questions"] : r.id = inv[p].id}}
    ELSE {l.position : l \in {r \in db["form_question_translations"] :
                                r.tx = inv[p].tid}}

\* C12: two calls of the same createQuestion handler that have both
\* committed a question to the same form translation gave their questions
\* distinct positions.
C12_DistinctPositions ==
    \A p, q \in Procs :
        (/\ p # q
         /\ inv[p].h \in {"createQuestion", "createQuestionB"}
         /\ inv[q].h = inv[p].h
         /\ inv[p].txn = "committed" /\ inv[q].txn = "committed"
         /\ inv[p].ft = inv[q].ft)
        => C12_Position(p) \cap C12_Position(q) = {}

\* ------------------------------------------------------------------ C13
\* C13: every committed link of a question to a form carries a position
\* that is an integer >= 1, and no step changes the position of a questions
\* row or of a link row that exists.
C13_PositionsAssignedOnce ==
    [][ /\ \A l \in View([db |-> db', committed |-> committed'],
                         "form_question_translations", PoolRequest) :
              l.position >= 1
        /\ \A t \in {"questions", "form_question_translations"} :
              \A x \in db[t], y \in db'[t] : x.id = y.id => x.position = y.position
      ]_vars

\* ------------------------------------------------------------------ C14
\* The invocation of slot p has called getPool: it waits for the promise, or
\* its await has given it the pool.
C14_CalledGetPool(p) == inv[p].pc = "getPool" \/ inv[p].pool

\* C14: connect() is called at most once in the process, and every handler
\* that has called getPool holds the one memoized promise: the pool it waits
\* for or has got is the pool of the first connect().
C14_OnePool ==
    /\ connects <= 1
    /\ (connects = 0) <=> (poolPromise.state = "null")
    /\ \A p \in Procs :
          C14_CalledGetPool(p) =>
              /\ connects = 1
              /\ inv[p].conn = 1
              /\ inv[p].conn = poolPromise.id
              /\ inv[p].pool => poolPromise.state = "fulfilled"

\* Two calls have called getPool before the first connect() has completed.
C14_Witness ==
    /\ poolPromise.state = "pending"
    /\ inv["p1"].pc = "getPool" /\ inv["p2"].pc = "getPool"
    /\ connects = 1

\* ------------------------------------------------------------------ C15
\* The HTTP statuses the handlers return.
C15_Statuses == {200, 201, 400, 404, 409, 500}

\* C15: every invocation that has ended has returned an HTTP response, and
\* it has answered 500 when an error was raised: a statement the store
\* failed, a pool that did not connect, a body that is no JSON.
C15_AlwaysResponds ==
    \A p \in Procs :
        inv[p].pc = "done" =>
            /\ inv[p].status \in C15_Statuses
            /\ (Has(inv[p].log, "error") \/ ~inv[p].json) => inv[p].status = 500

\* ------------------------------------------------------------------ C16
\* The place among the rows of the first row of question q.
C16_FirstSeen(rows, q) ==
    CHOOSE n \in 1..Len(rows) :
        /\ rows[n].questionId = q
        /\ \A m \in 1..(n - 1) : rows[m].questionId # q

\* The options of question q in the order in which the rows bring them.
C16_Arrived(rows, q) ==
    LET Mine(r) == r.questionId = q /\ ~FalsyId(r.optionId)
        R == SelectSeq(rows, Mine)
    IN  [n \in 1..Len(R) |->
           [optionId |-> R[n].optionId, optionDescription |-> R[n].optionDescription,
            position |-> R[n].k2]]

\* The sequence out holds the elements of the sequence arrived in ascending
\* order of position, those at the same position in the order of arrived.
C16_StablySorted(out, arrived) ==
    /\ Len(out) = Len(arrived)
    /\ \E f \in [1..Len(out) -> 1..Len(arrived)] :
          /\ \A i \in 1..Len(out) : out[i] = arrived[f[i]]
          /\ \A i, j \in 1..Len(out) :
                i < j =>
                  \/ Num(out[i].position) < Num(out[j].position)
                  \/ (Num(out[i].position) = Num(out[j].position) /\ f[i] < f[j])

\* C16: getAllQuestions returns the questions in ascending order of position
\* and the options of each question in ascending order of position (a null
\* position counting as 0, as the comparator takes it), and of two questions
\* or two options at the same position the one whose first row the query
\* returned first comes first.
C16_SortedStable ==
    \A p \in Procs :
        (Done(p, "getAllQuestions") /\ inv[p].status = 200) =>
            LET qs == inv[p].body.questions
                rows == inv[p].rows
            IN  /\ \A i, j \in 1..Len(qs) :
                      i < j =>
                        /\ Num(qs[i].position) <= Num(qs[j].position)
                        /\ Num(qs[i].position) = Num(qs[j].position)
                           => C16_FirstSeen(rows, qs[i].questionId)
                              < C16_FirstSeen(rows, qs[j].questionId)
                /\ \A n \in 1..Len(qs) :
                      C16_StablySorted(qs[n].options,
                                       C16_Arrived(rows, qs[n].questionId))

\* ------------------------------------------------------------------ C17
\* C17: in the questions a getAllQuestions call returns, no option id is
\* twice in the options list of a question.
C17_NoDuplicateOptions ==
    \A p \in Procs :
        (/\ inv[p].h \in {"getAllQuestions", "getAllQuestionsB"}
         /\ inv[p].pc = "done"
         /\ inv[p].status = 200)
        => \A n \in 1..Len(inv[p].body.questions) :
              LET os == inv[p].body.questions[n].options IN
              \A i, j \in 1..Len(os) : i # j => os[i].optionId # os[j].optionId

\* ------------------------------------------------------------------ C18
\* C18: in the questions list a getResponse call returns, no question id is
\* twice.
C18_NoDuplicateQuestions ==
    \A p \in Procs :
        (Done(p, "getResponse") /\ inv[p].status = 200)
        => LET qs == inv[p].body.questions IN
           \A i, j \in 1..Len(qs) : i # j => qs[i].question_id # qs[j].question_id

\* ------------------------------------------------------------------ C19
\* C19: a createQuestion, createResponse or addQuestionTranslation call
\* commits at most once and never both commits and rolls back; the commit
\* and the rollback are the last statement of the call, so the commit follows
\* the last insert and no statement follows a rollback; no response is
\* produced before the handler has ended; and a call that has returned 201
\* has committed exactly once, before it returned the new id.
C19_CommittedOnce ==
    \A p \in Procs :
        inv[p].h \in TxHandlers =>
            /\ Count(inv[p].log, "commit") <= 1
            /\ ~(Has(inv[p].log, "commit") /\ Has(inv[p].log, "rollback"))
            /\ \A n \in 1..Len(inv[p].log) :
                  inv[p].log[n] \in {"commit", "rollback"} => n = Len(inv[p].log)
            /\ Has(inv[p].log, "commit") <=> inv[p].txn = "committed"
            /\ inv[p].pc # "done" => inv[p].status = 0
            /\ (inv[p].pc = "done" /\ inv[p].status = 201)
               => /\ Count(inv[p].log, "commit") = 1
                  /\ Has(inv[p].log, "insert")
                  /\ inv[p].txn = "committed"
                  /\ inv[p].tid \in committed
                  /\ inv[p].body.id = inv[p].id

\* A createQuestion call with options and a createResponse or
\* addQuestionTranslation call have both returned 201.
C19_Witness ==
    \E p, q \in Procs :
        /\ Done(p, "createQuestion") /\ inv[p].status = 201
        /\ Count(inv[p].log, "insert") >= 4
        /\ inv[q].h \in {"createResponse", "addQuestionTranslation"}
        /\ inv[q].pc = "done" /\ inv[q].status = 201

\* ------------------------------------------------------------------ C20
\* The createQuestion call of createQuestion.ts in slot p has made its
\* inserts: it is at its commit, or it has returned 201.
C20_Created(p) ==
    /\ inv[p].h = "createQuestion"
    /\ inv[p].pc = "commit" \/ (inv[p].pc = "done" /\ inv[p].status = 201)

C21_Valid(h, req) ==
    CASE h = "createQuestion" -> ~(MissingQuestionField(req) \/ MissingImageUrls(req))
      [] h = "createQuestionB" -> ~MissingQuestionField(req)
      [] h = "createResponse" -> ~FalsyId(req.form_id) /\ req.answers.isArray
      [] h = "getResponse" -> ~FalsyId(req.response_id)
      [] h = "addQuestionTranslation" -> ~InvalidTranslation(req)
      [] h = "editQuestion" -> ~FalsyId(req.question_id)
      [] h \in {"getAllQuestions", "getAllQuestionsB"} ->
            ~(Falsy(req.username) \/ Falsy(req.formLanguage) \/ Falsy(req.formType))
      [] OTHER -> FALSE

\* The invocation of slot p takes a step of its handler up to getPool or
\* from it: its call comes in, or it goes on after it has waited.
C21_Steps(p) ==
    /\ inv'[p].tid # inv[p].tid \/ (inv[p].pc = "getPool" /\ inv'[p] # inv[p])
    /\ inv'[p].json

\* C21 as amended: once the promise of getPool has rejected it stays the
\* rejected promise and connect() is not called again, and every invocation
\* that comes to its getPool call from then on, its request valid, answers
\* 500 without having had a pool.
C21_RejectionMemoized ==
    [][poolPromise.state = "rejected" =>
          /\ poolPromise' = poolPromise
          /\ connects' = connects
          /\ \A p \in Procs :
                C21_Steps(p) /\ C21_Valid(inv'[p].h, inv'[p].req) =>
                   /\ inv'[p].pc = "done"
                   /\ inv'[p].status = 500
                   /\ ~inv'[p].pool]_vars

\* C21 as stated: once the promise of getPool has rejected, every invocation
\* of a handler from then on answers 500. (Bodies that parse only: the
\* statement fails without the help of a body that does not.)
C21_EveryLaterCallAnswers500 ==
    [][poolPromise.state = "rejected" =>
          \A p \in Procs :
             C21_Steps(p) => inv'[p].pc = "done" /\ inv'[p].status = 500]_vars

\* The one connect() has failed, and a call that came in after that, and so
\* never waited, has answered 500 at its await of getPool.
C21_Witness ==
    /\ poolPromise.state = "rejected"
    /\ connects = 1
    /\ \E p \in Procs :
          /\ inv[p].pc = "done" /\ inv[p].status = 500
          /\ inv[p].log = <<"error">>
          /\ inv[p].conn = 0 /\ ~inv[p].pool
          /\ C21_Valid(inv[p].h, inv[p].req)

\* ------------------------------------------------------------------ C22
\* The question translations and the form translations link row l ties.
C22_QuestionTranslations(l) ==
    {qt \in db["question_translations"] : qt.id = l.question_translation_id}

C22_FormTranslations(l) ==
    {ft \in form_translations : ft.id = l.form_translation_id}

\* C22: every form_question_translations row, whichever of createQuestion
\* (either copy) and addQuestionTranslation has inserted it, links a question
\* translation and a form translation that exist and are of one language.
C22_LinksSameLanguage ==
    \A l \in db["form_question_translations"] :
        /\ C22_QuestionTranslations(l) # {}
        /\ C22_FormTranslations(l) # {}
        /\ \A qt \in C22_QuestionTranslations(l), ft \in C22_FormTranslations(l) :
              qt.language = ft.language

\* The store holds the committed link row of a question created in "en" and
\* the committed link row of the "es" translation addQuestionTranslation
\* has added to the question.
C22_Witness ==
    \E l1, l2 \in View(Store, "form_question_translations", PoolRequest) :
        \E q1 \in C22_QuestionTranslations(l1), q2 \in C22_QuestionTranslations(l2) :
            /\ q1.question_id = q2.question_id
            /\ q1.language = "en" /\ q2.language = "es"
            /\ \E p \in Procs :
                  /\ inv[p].h = "addQuestionTranslation" /\ inv[p].status = 201
                  /\ l2.tx = inv[p].tid

\* ------------------------------------------------------------------ C23
\* The question and the form link row l ties.
C23_Question(l) ==
    {qt.question_id : qt \in C22_QuestionTranslations(l)}

C23_Form(l) ==
    {ft.form_id : ft \in C22_FormTranslations(l)}

\* C23: the link row addQuestionTranslation has committed for a translation
\* goes to a translation of a form that held the question before: an earlier
\* link row ties the same question to the same form.
C23_LinkedIntoOwnForm ==
    \A p \in Procs : \A l \in View(Store, "form_question_translations", PoolRequest) :
        inv[p].h = "addQuestionTranslation" /\ l.tx = inv[p].tid =>
            \E l0 \in View(Store, "form_question_translations", PoolRequest) :
                /\ l0.id < l.id
                /\ C23_Question(l0) = C23_Question(l)
                /\ C23_Form(l0) = C23_Form(l)

\* ------------------------------------------------------------------ C24
\* The invocation of slot p takes a step of editQuestion: its call comes in,
\* or it goes on after an await.
C24_Steps(p) == inv'[p].h = "editQuestion" /\ inv'[p] # inv[p]

\* The translation_ids the request lists.
C24_Listed(req) ==
    {req.translations.items[n].translation_id : n \in 1..Len(req.translations.items)}

\* The rows of the table are the rows it had, and a column of a row has
\* changed only where Named(row, column) allows it.
C24_Only(table, Named(_, _)) ==
    /\ Cardinality(db'[table]) = Cardinality(db[table])
    /\ \A r \in db[table] : \E x \in db'[table] :
          /\ x.id = r.id
          /\ DOMAIN x = DOMAIN r
          /\ \A k \in DOMAIN r : x[k] # r[k] => Named(r, k)

\* The body carries question_id and nothing else.
C24_OnlyQuestionId(req) ==
    ~FalsyId(req.question_id) /\ DOMAIN req.fields = {} /\ req.translations = Absent

\* C24: a step of an editQuestion call sets, of the questions table, only the
\* columns the body has and only on the row question_id, and of the
\* question_translations table only question_text and only on the rows whose
\* translation_id the body lists; it inserts and deletes no row and leaves
\* every other table as it is. A call whose body has question_id alone and
\* that meets no error returns 200 with no statement issued.
C24_ChangesOnlyNamed ==
    [][\A p \in Procs : C24_Steps(p) =>
          LET req == inv'[p].req
              NamedQuestion(r, k) == r.id = req.question_id /\ k \in DOMAIN req.fields
              NamedTranslation(r, k) == r.id \in C24_Listed(req) /\ k = "question_text"
          IN  /\ C24_Only("questions", NamedQuestion)
              /\ C24_Only("question_translations", NamedTranslation)
              /\ \A t \in TableNames \ {"questions", "question_translations"} :
                    db'[t] = db[t]
              /\ nextId' = nextId /\ committed' = committed
              /\ Calls(p, "editQuestion") /\ C24_OnlyQuestionId(req) =>
                    /\ inv'[p].pc = "done" /\ inv'[p].status = 200
                    /\ inv'[p].log = <<>>
                    /\ db' = db]_vars

\* An editQuestion call that sets the position of question 1 and the text of
\* translation 1 has returned 200, and the store holds a second question and
\* a second translation, both as they were inserted.
C24_Witness ==
    \E p \in Procs :
        /\ Done(p, "editQuestion") /\ inv[p].status = 200
        /\ DOMAIN inv[p].req.fields = {"position"}
        /\ C24_Listed(inv[p].req) = {1}
        /\ Count(inv[p].log, "update") = 2
        /\ \E q1, q2 \in View(Store, "questions", PoolRequest) :
              /\ q1.id = 1 /\ q1.position = 5
              /\ q2.id = 2 /\ q2.position # 5
        /\ \E t1, t2 \in View(Store, "question_translations", PoolRequest) :
              /\ t1.id = 1 /\ t1.question_text = "Q1!"
              /\ t2.id = 2 /\ t2.question_text = "Q1?"

\* An editQuestion call whose body has question_id alone has returned 200
\* with no statement issued.
C24_WitnessEmpty ==
    \E p \in Procs :
        /\ Done(p, "editQuestion") /\ inv[p].status = 200
        /\ C24_OnlyQuestionId(inv[p].req)
        /\ inv[p].log = <<>> /\ inv[p].pool

====
